---- MODULE Spec2Model ----
(***************************************************************************)
(* Model of include/dftd_cblas.h of cpp-d4: the three BLAS/LAPACK wrappers *)
(* BLAS_Add_Mat_x_Vec, BLAS_Add_Mat_x_Mat and BLAS_InvertMatrix, in both   *)
(* builds (DFTD4_USE_EIGEN defined or not).                                *)
(*                                                                         *)
(* A buffer (TMatrix::p, TVector::p) is a sequence of integers; the C      *)
(* index k (0-based) is element k+1 of the sequence.  Integer values stand *)
(* for the doubles: sums and products are exact on them.                   *)
(***************************************************************************)
EXTENDS Integers, Sequences, FiniteSets, TLC

VARIABLES
  backend,    \* "eigen" when DFTD4_USE_EIGEN is defined, else "vendor"
  pc,         \* "idle" | "returned" | "exited" | "aborted" | "crashed"
  op,         \* "none" | "gemv" | "gemm" | "invert"
  args,       \* the arguments of the call, as passed
  mem,        \* the contents of the caller's buffers after the call (for
              \* invert: what the backend made of the matrix)
  ret,        \* the value returned (NoValue when nothing was returned)
  calls,      \* the backend calls / evaluations issued, in order
  ipiv,       \* the pivot scratch buffer: "none" | "allocated" | "freed"
  clobbered   \* out-of-bounds indices of C written by a backend call

vars == <<backend, pc, op, args, mem, ret, calls, ipiv, clobbered>>

---------------------------------------------------------------------------
(* Bounds of the model *)

MaxDim == 2      \* rows, columns and lengths range over 0..MaxDim
MaxBase == 3     \* vectors are filled base, base+1, ... for base in 0..MaxBase
MaxAlpha == 2    \* alpha ranges over 0..MaxAlpha
MaxGarbage == 1  \* a read beyond a buffer yields a value in 0..MaxGarbage

(* Program constants *)

EXIT_SUCCESS == 0
EXIT_FAILURE == 1
NoValue == "none"

Backends == {"vendor", "eigen"}
Dims == 0..MaxDim
Alphas == 0..MaxAlpha
Garbage == 0..MaxGarbage

---------------------------------------------------------------------------
(* Operands *)

\* TMatrix<double>: rows, cols and the flat buffer p of rows*cols elements
TMatrix(r, c, p) == [rows |-> r, cols |-> c, p |-> p]

\* TVector<double>: N and the flat buffer p of N elements
TVector(n, p) == [N |-> n, p |-> p]

\* the buffer base, base+1, ..., base+n-1
Ramp(base, n) == [k \in 1..n |-> base + k - 1]

\* the buffer of the r x c matrix with ones on the diagonal, laid out row by row
Eye(r, c) == [k \in 1..(r * c) |-> IF (k - 1) \div c = (k - 1) % c THEN 1 ELSE 0]

\* the matrices a caller passes: every shape, a symmetric and a non-symmetric fill
Matrices ==
  { TMatrix(r, c, Eye(r, c)) : r \in Dims, c \in Dims }
    \cup { TMatrix(r, c, Ramp(1, r * c)) : r \in Dims, c \in Dims }

\* the matrices passed to invert: those, and the all-zero (singular) ones
InvertMatrices ==
  Matrices \cup { TMatrix(r, c, [k \in 1..(r * c) |-> 0]) : r \in Dims, c \in Dims }

\* the vectors a caller passes
Vectors == { TVector(n, Ramp(b, n)) : n \in Dims, b \in 0..MaxBase }

---------------------------------------------------------------------------
(* Arithmetic helpers *)

RECURSIVE Sum(_, _)
\* f[0] + ... + f[n-1]
Sum(f, n) == IF n <= 0 THEN 0 ELSE f[n - 1] + Sum(f, n - 1)

\* the indices of a buffer
InBounds(p) == 0..(Len(p) - 1)

\* a read of index k of buffer p; beyond the buffer the value is whatever lies there
Rd(p, k, g) == IF k \in InBounds(p) THEN p[k + 1] ELSE g[k]

\* the ways to fill the out-of-bounds reads of a call
GarbageFor(idx, p) == [ (idx \ InBounds(p)) -> Garbage ]

---------------------------------------------------------------------------
(* The vendor backend: cblas_dgemv with CblasRowMajor                      *)
(*   y := alpha * op(A) * x + beta * y, A being M x N with leading         *)
(*   dimension lda; with CblasTrans x has M elements and y has N.          *)

NoAccess == [A |-> {}, X |-> {}, Y |-> {}]

\* the indices the call touches; it returns at once, touching nothing, when
\* M = 0, N = 0 or (alpha = 0 and beta = 1)
cblas_dgemv_access(trans, M, N, alpha, lda, incX, beta, incY) ==
  IF M = 0 \/ N = 0 \/ (alpha = 0 /\ beta = 1) THEN NoAccess
  ELSE [ A |-> { i * lda + j : i \in 0..(M - 1), j \in 0..(N - 1) },
         X |-> { k * incX : k \in 0..((IF trans THEN M ELSE N) - 1) },
         Y |-> { k * incY : k \in 0..((IF trans THEN N ELSE M) - 1) } ]

cblas_dgemv(trans, M, N, alpha, A, lda, X, incX, beta, Y, incY, gA, gX) ==
  LET lenX == IF trans THEN M ELSE N
      lenY == IF trans THEN N ELSE M
      a(i, j) == Rd(A, i * lda + j, gA)
      dot(r) == Sum([c \in 0..(lenX - 1) |->
                       (IF trans THEN a(c, r) ELSE a(r, c)) * Rd(X, c * incX, gX)],
                    lenX)
      row(k) == IF incY = 0 THEN 0 ELSE k \div incY
      acc == cblas_dgemv_access(trans, M, N, alpha, lda, incX, beta, incY)
  IN  [ k \in 1..Len(Y) |->
          IF (k - 1) \in acc.Y
            THEN alpha * dot(row(k - 1)) + beta * Y[k]
            ELSE Y[k] ]

---------------------------------------------------------------------------
(* The expression-template backend: Eigen::Map views and their products    *)

\* Eigen::Map<Eigen::MatrixXd>(p, rows, cols): MatrixXd is column-major, so
\* coefficient (i, j) of the view is p[i + j * rows]
Eigen_Map(rows, cols) == [rows |-> rows, cols |-> cols, ld |-> rows, t |-> FALSE]

\* Eigen::Map<Eigen::VectorXd>(p, N): a column of N coefficients
Eigen_VecMap(N) == [rows |-> N, cols |-> 1, ld |-> N, t |-> FALSE]

\* .transpose(): the same buffer, rows and columns exchanged
Eigen_transpose(m) == [rows |-> m.cols, cols |-> m.rows, ld |-> m.ld, t |-> ~m.t]

\* the buffer index of coefficient (i, j) of a view
ViewIdx(m, i, j) == IF m.t THEN j + i * m.ld ELSE i + j * m.ld

\* the sizes Eigen asserts (eigen_assert) for dst += alpha * lhs * rhs
Eigen_SizesAgree(dst, lhs, rhs) ==
  lhs.cols = rhs.rows /\ dst.rows = lhs.rows /\ dst.cols = rhs.cols

\* the buffer indices touched by dst += alpha * lhs * rhs: the product has
\* lhs.rows x rhs.cols coefficients, each a sum of lhs.cols terms; a product
\* without coefficients touches nothing
Eigen_access(dst, lhs, rhs) ==
  IF lhs.rows = 0 \/ rhs.cols = 0 THEN NoAccess
  ELSE [ A |-> { ViewIdx(lhs, i, k) : i \in 0..(lhs.rows - 1), k \in 0..(lhs.cols - 1) },
         X |-> { ViewIdx(rhs, k, j) : k \in 0..(lhs.cols - 1), j \in 0..(rhs.cols - 1) },
         Y |-> { ViewIdx(dst, i, j) : i \in 0..(lhs.rows - 1), j \in 0..(rhs.cols - 1) } ]

\* dst += alpha * lhs * rhs, evaluated into the buffer C of dst
Eigen_AddProduct(dst, C, alpha, lhs, A, rhs, B, gA, gB) ==
  LET I == 0..(lhs.rows - 1)
      J == 0..(rhs.cols - 1)
      cell(i, j) ==
        alpha * Sum([k \in 0..(lhs.cols - 1) |->
                       Rd(A, ViewIdx(lhs, i, k), gA) * Rd(B, ViewIdx(rhs, k, j), gB)],
                    lhs.cols)
  IN  [ n \in 1..Len(C) |->
          IF \E i \in I, j \in J : ViewIdx(dst, i, j) = n - 1
            THEN LET ij == CHOOSE ij \in I \X J : ViewIdx(dst, ij[1], ij[2]) = n - 1
                 IN  C[n] + cell(ij[1], ij[2])
            ELSE C[n] ]

---------------------------------------------------------------------------
(* Outcomes of a call: where control ends up, the value returned, the      *)
(* contents of C afterwards, the backend calls issued                      *)

Outcome(where, value, C, issued, beyond) ==
  [pc |-> where, ret |-> value, C |-> C, calls |-> issued, clobbered |-> beyond]

\* a backend call and the buffer indices it reads and writes
BackendCall(fn, acc) ==
  [fn |-> fn, readsA |-> acc.A, readsX |-> acc.X, writesC |-> acc.Y]

\* a call whose accesses leave a buffer has undefined behaviour
AccessInBounds(acc, A, X, C) ==
  acc.A \subseteq InBounds(A) /\ acc.X \subseteq InBounds(X) /\ acc.Y \subseteq InBounds(C)

---------------------------------------------------------------------------
(* BLAS_Add_Mat_x_Vec                                                      *)

\* the shape test of both builds (it does not look at Transpose)
GemvShapeOK(C, A, V, Transpose) == A.rows = C.N /\ A.cols = V.N

\* #else branch: cblas_dgemv(CblasRowMajor, CblasTrans | CblasNoTrans,
\*   A.rows, A.cols, alpha, A.p, A.cols, V.p, 1, 1.0, C.p, 1)
Gemv_Vendor(C, A, V, Transpose, alpha) ==
  IF GemvShapeOK(C, A, V, Transpose)
    THEN LET acc == cblas_dgemv_access(Transpose, A.rows, A.cols, alpha, A.cols, 1, 1, 1)
             call == BackendCall("cblas_dgemv", acc)
         IN  { Outcome("returned", EXIT_SUCCESS,
                       cblas_dgemv(Transpose, A.rows, A.cols, alpha, A.p, A.cols,
                                   V.p, 1, 1, C.p, 1, gA, gX),
                       <<call>>, acc.Y \ InBounds(C.p))
                 : gA \in GarbageFor(acc.A, A.p), gX \in GarbageFor(acc.X, V.p) }
             \cup (IF AccessInBounds(acc, A.p, V.p, C.p) THEN {}
                   ELSE { Outcome("crashed", NoValue, C.p, <<call>>, {}) })
    ELSE { Outcome("returned", EXIT_FAILURE, C.p, <<>>, {}) }

\* #ifdef DFTD4_USE_EIGEN branch: eigenC += alpha * eigenA[.transpose()] * eigenV
Gemv_Eigen(C, A, V, Transpose, alpha) ==
  IF GemvShapeOK(C, A, V, Transpose)
    THEN LET eigenA == Eigen_Map(A.rows, A.cols)
             eigenV == Eigen_VecMap(V.N)
             eigenC == Eigen_VecMap(C.N)
             lhs == IF Transpose THEN Eigen_transpose(eigenA) ELSE eigenA
             acc == Eigen_access(eigenC, lhs, eigenV)
             call == BackendCall("Eigen", acc)
         IN  { Outcome("returned", EXIT_SUCCESS,
                       Eigen_AddProduct(eigenC, C.p, alpha, lhs, A.p, eigenV, V.p, gA, gX),
                       <<call>>, acc.Y \ InBounds(C.p))
                 : gA \in GarbageFor(acc.A, A.p), gX \in GarbageFor(acc.X, V.p) }
             \cup (IF Eigen_SizesAgree(eigenC, lhs, eigenV) THEN {}
                   ELSE { Outcome("aborted", NoValue, C.p, <<call>>, {}) })
             \cup (IF AccessInBounds(acc, A.p, V.p, C.p) THEN {}
                   ELSE { Outcome("crashed", NoValue, C.p, <<call>>, {}) })
    ELSE { Outcome("returned", EXIT_FAILURE, C.p, <<>>, {}) }

BLAS_Add_Mat_x_Vec(C, A, V, Transpose, alpha) ==
  IF backend = "eigen" THEN Gemv_Eigen(C, A, V, Transpose, alpha)
                       ELSE Gemv_Vendor(C, A, V, Transpose, alpha)

---------------------------------------------------------------------------
(* The vendor backend: cblas_dgemm with CblasRowMajor                      *)
(*   C := alpha * op(A) * op(B) + beta * C, op(A) being M x K, op(B)       *)
(*   K x N and C M x N, with leading dimensions lda, ldb, ldc              *)

dgemm_idxA(transA, lda, i, k) == IF transA THEN k * lda + i ELSE i * lda + k
dgemm_idxB(transB, ldb, k, j) == IF transB THEN j * ldb + k ELSE k * ldb + j

\* the indices the call touches; it returns at once, touching nothing, when
\* M = 0, N = 0 or ((alpha = 0 or K = 0) and beta = 1)
cblas_dgemm_access(transA, transB, M, N, K, alpha, lda, ldb, beta, ldc) ==
  IF M = 0 \/ N = 0 \/ ((alpha = 0 \/ K = 0) /\ beta = 1) THEN NoAccess
  ELSE [ A |-> { dgemm_idxA(transA, lda, i, k) : i \in 0..(M - 1), k \in 0..(K - 1) },
         X |-> { dgemm_idxB(transB, ldb, k, j) : k \in 0..(K - 1), j \in 0..(N - 1) },
         Y |-> { i * ldc + j : i \in 0..(M - 1), j \in 0..(N - 1) } ]

cblas_dgemm(transA, transB, M, N, K, alpha, A, lda, B, ldb, beta, C, ldc, gA, gB) ==
  LET I == 0..(M - 1)
      J == 0..(N - 1)
      cell(i, j) ==
        alpha * Sum([k \in 0..(K - 1) |->
                       Rd(A, dgemm_idxA(transA, lda, i, k), gA)
                         * Rd(B, dgemm_idxB(transB, ldb, k, j), gB)],
                    K)
      acc == cblas_dgemm_access(transA, transB, M, N, K, alpha, lda, ldb, beta, ldc)
  IN  [ n \in 1..Len(C) |->
          IF (n - 1) \in acc.Y
            THEN LET ij == CHOOSE ij \in I \X J : ij[1] * ldc + ij[2] = n - 1
                 IN  cell(ij[1], ij[2]) + beta * C[n]
            ELSE C[n] ]

---------------------------------------------------------------------------
(* BLAS_Add_Mat_x_Mat                                                      *)

\* "check for size 0 matrices"
GemmDegenerate(C, A, B) ==
  A.cols = 0 \/ A.rows = 0 \/ B.cols = 0 \/ B.rows = 0 \/ C.cols = 0 \/ C.rows = 0

\* GemmShapeOK with the test of the A * B branch pasted into the A^T * B^T branch
GemmShapeOK_PastedBranch(C, A, B, TransposeA, TransposeB) ==
  IF ~TransposeA /\ TransposeB
    THEN ~(A.cols # B.cols \/ A.rows # C.rows \/ B.rows # C.cols)
  ELSE IF TransposeA /\ ~TransposeB
    THEN ~(A.rows # B.rows \/ A.cols # C.rows \/ B.cols # C.cols)
  ELSE ~(A.cols # B.rows \/ A.rows # C.rows \/ B.cols # C.cols)

\* the dimension test of the branch the transpose flags select (a failed
\* test is written as in the code: the branch is left when a != holds)
GemmShapeOK(C, A, B, TransposeA, TransposeB) ==
  IF ~TransposeA
    THEN IF ~TransposeB
           THEN ~(A.cols # B.rows \/ A.rows # C.rows \/ B.cols # C.cols)
           ELSE ~(A.cols # B.cols \/ A.rows # C.rows \/ B.rows # C.cols)
    ELSE IF ~TransposeB
           THEN ~(A.rows # B.rows \/ A.cols # C.rows \/ B.cols # C.cols)
           ELSE ~(A.rows # B.cols \/ A.cols # C.rows \/ B.rows # C.cols)

\* #else branch: exit(EXIT_FAILURE) on a rejected input, else
\* cblas_dgemm(CblasRowMajor, ta, tb, C.rows, C.cols, A.cols | A.rows, alpha,
\*   A.p, A.cols, B.p, B.cols, 1.0, C.p, C.cols)
Gemm_Vendor(C, A, B, TransposeA, TransposeB, alpha) ==
  IF GemmDegenerate(C, A, B)
    THEN { Outcome("exited", NoValue, C.p, <<>>, {}) }
  ELSE IF ~GemmShapeOK(C, A, B, TransposeA, TransposeB)
    THEN { Outcome("exited", NoValue, C.p, <<>>, {}) }
  ELSE LET K == IF TransposeA THEN A.rows ELSE A.cols
           acc == cblas_dgemm_access(TransposeA, TransposeB, C.rows, C.cols, K,
                                     alpha, A.cols, B.cols, 1, C.cols)
           call == BackendCall("cblas_dgemm", acc)
       IN  { Outcome("returned", EXIT_SUCCESS,
                     cblas_dgemm(TransposeA, TransposeB, C.rows, C.cols, K, alpha,
                                 A.p, A.cols, B.p, B.cols, 1, C.p, C.cols, gA, gB),
                     <<call>>, acc.Y \ InBounds(C.p))
               : gA \in GarbageFor(acc.A, A.p), gB \in GarbageFor(acc.X, B.p) }
           \cup (IF AccessInBounds(acc, A.p, B.p, C.p) THEN {}
                 ELSE { Outcome("crashed", NoValue, C.p, <<call>>, {}) })

\* #ifdef DFTD4_USE_EIGEN branch: return EXIT_FAILURE on a rejected input, else
\* eigenC += alpha * eigenA[.transpose()] * eigenB[.transpose()]
Gemm_Eigen(C, A, B, TransposeA, TransposeB, alpha) ==
  IF GemmDegenerate(C, A, B)
    THEN { Outcome("returned", EXIT_FAILURE, C.p, <<>>, {}) }
  ELSE IF ~GemmShapeOK(C, A, B, TransposeA, TransposeB)
    THEN { Outcome("returned", EXIT_FAILURE, C.p, <<>>, {}) }
  ELSE LET eigenA == Eigen_Map(A.rows, A.cols)
           eigenB == Eigen_Map(B.rows, B.cols)
           eigenC == Eigen_Map(C.rows, C.cols)
           lhs == IF TransposeA THEN Eigen_transpose(eigenA) ELSE eigenA
           rhs == IF TransposeB THEN Eigen_transpose(eigenB) ELSE eigenB
           acc == Eigen_access(eigenC, lhs, rhs)
           call == BackendCall("Eigen", acc)
       IN  { Outcome("returned", EXIT_SUCCESS,
                     Eigen_AddProduct(eigenC, C.p, alpha, lhs, A.p, rhs, B.p, gA, gB),
                     <<call>>, acc.Y \ InBounds(C.p))
               : gA \in GarbageFor(acc.A, A.p), gB \in GarbageFor(acc.X, B.p) }
           \cup (IF Eigen_SizesAgree(eigenC, lhs, rhs) THEN {}
                 ELSE { Outcome("aborted", NoValue, C.p, <<call>>, {}) })
           \cup (IF AccessInBounds(acc, A.p, B.p, C.p) THEN {}
                 ELSE { Outcome("crashed", NoValue, C.p, <<call>>, {}) })

BLAS_Add_Mat_x_Mat(C, A, B, TransposeA, TransposeB, alpha) ==
  IF backend = "eigen" THEN Gemm_Eigen(C, A, B, TransposeA, TransposeB, alpha)
                       ELSE Gemm_Vendor(C, A, B, TransposeA, TransposeB, alpha)

---------------------------------------------------------------------------
(* BLAS_InvertMatrix.  The factorization and the inverse are the backend's; *)
(* the model keeps what the wrapper sees of them: the info value of each    *)
(* LAPACKE call, and whether eigenA.inverse() threw.                        *)

\* element (i, j), 0-based, of a matrix stored row by row with lda = cols
RowMajorAt(a, i, j) == a.p[i * a.cols + j + 1]

RECURSIVE DetFrom(_, _, _)
\* determinant of the rows r.. of a restricted to the columns cs, expanded
\* along row r; the determinant of the empty matrix is 1
DetFrom(a, r, cs) ==
  IF cs = <<>> THEN 1
  ELSE Sum([k \in 0..(Len(cs) - 1) |->
              (IF k % 2 = 0 THEN 1 ELSE -1) * RowMajorAt(a, r, cs[k + 1])
                * DetFrom(a, r + 1, SubSeq(cs, 1, k) \o SubSeq(cs, k + 2, Len(cs)))],
           Len(cs))

Det(a) == DetFrom(a, 0, [k \in 1..a.cols |-> k - 1])

\* LAPACKE reports a failed allocation of its row-major work copy as a
\* negative info (LAPACK_TRANSPOSE_MEMORY_ERROR, LAPACK_WORK_MEMORY_ERROR)
LapackMemoryError == {-1011, -1010}

\* info of LAPACKE_dgetrf: 0 on success, i when U(i,i) is exactly zero (for
\* a square matrix: when it is singular), negative without memory
GetrfInfo(a) ==
  (IF a.rows # a.cols THEN 0..(IF a.rows < a.cols THEN a.rows ELSE a.cols)
   ELSE IF Det(a) = 0 THEN 1..a.rows
   ELSE {0}) \cup LapackMemoryError

\* info of LAPACKE_dgetri on the factors of a non-singular matrix
GetriInfo(a) == {0} \cup LapackMemoryError

LapackCall(fn, info) == [fn |-> fn, info |-> info]

InvertOutcome(value, issued, scratch, matrix) ==
  [ret |-> value, calls |-> issued, ipiv |-> scratch, a |-> matrix]

\* IsSquare with > written for != : a wide matrix passes
IsSquare_OnlyTall(a) == ~(a.rows > a.cols)

\* if (a.rows != a.cols) { return EXIT_FAILURE; }
IsSquare(a) == ~(a.rows # a.cols)

\* Invert_Vendor without the test of info after LAPACKE_dgetrf
Invert_Vendor_NoGetrfTest(a, info1, info2) ==
  IF ~IsSquare(a)
    THEN InvertOutcome(EXIT_FAILURE, <<>>, "none", "untouched")
  ELSE IF info2 # 0
    THEN InvertOutcome(EXIT_FAILURE,
                       <<LapackCall("LAPACKE_dgetrf", info1),
                         LapackCall("LAPACKE_dgetri", info2)>>,
                       "allocated", "partial")
  ELSE InvertOutcome(EXIT_SUCCESS,
                     <<LapackCall("LAPACKE_dgetrf", info1),
                       LapackCall("LAPACKE_dgetri", info2)>>,
                     "freed", "inverted")

\* #else branch: new[] ipiv, LAPACKE_dgetrf, LAPACKE_dgetri, delete[] ipiv
Invert_Vendor(a, info1, info2) ==
  IF ~IsSquare(a)
    THEN InvertOutcome(EXIT_FAILURE, <<>>, "none", "untouched")
  ELSE IF info1 # 0
    THEN InvertOutcome(EXIT_FAILURE, <<LapackCall("LAPACKE_dgetrf", info1)>>,
                       "allocated", "factored")
  ELSE IF info2 # 0
    THEN InvertOutcome(EXIT_FAILURE,
                       <<LapackCall("LAPACKE_dgetrf", info1),
                         LapackCall("LAPACKE_dgetri", info2)>>,
                       "allocated", "partial")
  ELSE InvertOutcome(EXIT_SUCCESS,
                     <<LapackCall("LAPACKE_dgetrf", info1),
                       LapackCall("LAPACKE_dgetri", info2)>>,
                     "freed", "inverted")

\* #ifdef DFTD4_USE_EIGEN branch: eigenA = eigenA.inverse() inside try/catch
Invert_Eigen(a, threw) ==
  IF ~IsSquare(a)
    THEN InvertOutcome(EXIT_FAILURE, <<>>, "none", "untouched")
  ELSE IF threw
    THEN InvertOutcome(EXIT_FAILURE, <<LapackCall("Eigen_inverse", -1)>>,
                       "none", "partial")
  ELSE InvertOutcome(EXIT_SUCCESS, <<LapackCall("Eigen_inverse", 0)>>,
                     "none",
                     IF a.rows = a.cols /\ Det(a) # 0 THEN "inverted" ELSE "garbage")

BLAS_InvertMatrix(a, info1, info2, threw) ==
  IF backend = "eigen" THEN Invert_Eigen(a, threw)
                       ELSE Invert_Vendor(a, info1, info2)

---------------------------------------------------------------------------
(* The state machine: one call of one wrapper in a build                   *)

Init ==
  /\ backend \in Backends
  /\ pc = "idle"
  /\ op = "none"
  /\ args = <<>>
  /\ mem = <<>>
  /\ ret = NoValue
  /\ calls = <<>>
  /\ ipiv = "none"
  /\ clobbered = {}

GemvCall ==
  /\ pc = "idle"
  /\ \E C \in Vectors, A \in Matrices, V \in Vectors, Transpose \in BOOLEAN,
        alpha \in Alphas :
       \E o \in BLAS_Add_Mat_x_Vec(C, A, V, Transpose, alpha) :
         /\ op' = "gemv"
         /\ args' = [C |-> C, A |-> A, V |-> V, Transpose |-> Transpose, alpha |-> alpha]
         /\ mem' = [C |-> o.C, A |-> A.p, V |-> V.p]
         /\ pc' = o.pc
         /\ ret' = o.ret
         /\ calls' = o.calls
         /\ clobbered' = o.clobbered
  /\ UNCHANGED <<backend, ipiv>>

GemmCall ==
  /\ pc = "idle"
  /\ \E C \in Matrices, A \in Matrices, B \in Matrices,
        TransposeA \in BOOLEAN, TransposeB \in BOOLEAN, alpha \in Alphas :
       \E o \in BLAS_Add_Mat_x_Mat(C, A, B, TransposeA, TransposeB, alpha) :
         /\ op' = "gemm"
         /\ args' = [C |-> C, A |-> A, B |-> B, TransposeA |-> TransposeA,
                     TransposeB |-> TransposeB, alpha |-> alpha]
         /\ mem' = [C |-> o.C, A |-> A.p, B |-> B.p]
         /\ pc' = o.pc
         /\ ret' = o.ret
         /\ calls' = o.calls
         /\ clobbered' = o.clobbered
  /\ UNCHANGED <<backend, ipiv>>

InvertCall ==
  /\ pc = "idle"
  /\ \E a \in InvertMatrices, threw \in BOOLEAN :
       \E info1 \in GetrfInfo(a), info2 \in GetriInfo(a) :
         LET o == BLAS_InvertMatrix(a, info1, info2, threw)
         IN  /\ op' = "invert"
             /\ args' = [a |-> a]
             /\ mem' = [a |-> o.a]
             /\ pc' = "returned"
             /\ ret' = o.ret
             /\ calls' = o.calls
             /\ ipiv' = o.ipiv
  /\ UNCHANGED <<backend, clobbered>>

Next == GemvCall \/ GemmCall \/ InvertCall

Spec == Init /\ [][Next]_vars

---------------------------------------------------------------------------
(* What the operations are specified to compute, on the row-major reading  *)
(* of the buffers: element (i, j) of a matrix is p[i * cols + j]           *)

OpRows(m, t) == IF t THEN m.cols ELSE m.rows
OpCols(m, t) == IF t THEN m.rows ELSE m.cols
OpAt(m, t, i, j) == IF t THEN m.p[j * m.cols + i + 1] ELSE m.p[i * m.cols + j + 1]

\* op(A) is C.N x V.N
GemvFits(C, A, V, t) == OpRows(A, t) = C.N /\ OpCols(A, t) = V.N

\* alpha * op(A) * V + C
GemvExpected(C, A, V, t, alpha) ==
  [ n \in 1..C.N |->
      alpha * Sum([k \in 0..(V.N - 1) |-> OpAt(A, t, n - 1, k) * V.p[k + 1]], V.N)
        + C.p[n] ]

\* op(A) * op(B) is defined and has the shape of C
GemmFits(C, A, B, tA, tB) ==
  /\ OpCols(A, tA) = OpRows(B, tB)
  /\ OpRows(A, tA) = C.rows
  /\ OpCols(B, tB) = C.cols

\* an operand with zero rows or zero columns
ZeroSized(m) == m.rows = 0 \/ m.cols = 0

\* alpha * op(A) * op(B) + C
GemmExpected(C, A, B, tA, tB, alpha) ==
  [ n \in 1..(C.rows * C.cols) |->
      LET i == (n - 1) \div C.cols
          j == (n - 1) % C.cols
          K == OpCols(A, tA)
      IN  alpha * Sum([k \in 0..(K - 1) |-> OpAt(A, tA, i, k) * OpAt(B, tB, k, j)], K)
            + C.p[n] ]

GemmRejected ==
  \/ ZeroSized(args.A) \/ ZeroSized(args.B) \/ ZeroSized(args.C)
  \/ ~GemmFits(args.C, args.A, args.B, args.TransposeA, args.TransposeB)

---------------------------------------------------------------------------
(* The claims *)

\* C1: every gemm call on degenerate or incompatible operands returns a
\* failure value to the caller; the process is never terminated.
C1_GemmRejectionReturns ==
  (op = "gemm" /\ GemmRejected) => (pc = "returned" /\ ret = EXIT_FAILURE)

\* C2: no return from invert leaves the pivot scratch buffer allocated,
\* whether the call succeeded, the factorization failed or the
\* reconstruction failed.
C2_InvertReleasesScratch ==
  (op = "invert" /\ pc = "returned") => ipiv # "allocated"

\* C3: gemv succeeds only when op(A) is C.length x V.length, op(A) being A^T
\* when the transpose flag is set; for every other shape it returns a
\* failure, issues no backend call and leaves C untouched.
C3_GemvShapeAgainstOpA ==
  op = "gemv" =>
    LET fits == GemvFits(args.C, args.A, args.V, args.Transpose)
    IN  /\ (pc = "returned" /\ ret = EXIT_SUCCESS) => fits
        /\ ~fits => /\ pc = "returned"
                    /\ ret = EXIT_FAILURE
                    /\ calls = <<>>
                    /\ mem.C = args.C.p

\* C4: gemm and gemv on any operand with zero rows, zero columns or zero
\* length return a failure and issue no backend call, for every transpose
\* setting, also when the zero-sized shapes are mutually compatible.
C4_ZeroSizedRejectedWithoutCall ==
  /\ (op = "gemm" /\ (ZeroSized(args.A) \/ ZeroSized(args.B) \/ ZeroSized(args.C)))
       => (pc = "returned" /\ ret = EXIT_FAILURE /\ calls = <<>>)
  /\ (op = "gemv" /\ (ZeroSized(args.A) \/ args.V.N = 0 \/ args.C.N = 0))
       => (pc = "returned" /\ ret = EXIT_FAILURE /\ calls = <<>>)

\* C5: a successful gemm leaves C equal to alpha*op(A)*op(B) + C_original on
\* the row-major reading of the buffers, in both backends and for all four
\* transpose combinations.
C5_GemmComputesRowMajorProduct ==
  (op = "gemm" /\ pc = "returned" /\ ret = EXIT_SUCCESS) =>
    /\ GemmFits(args.C, args.A, args.B, args.TransposeA, args.TransposeB)
    /\ mem.C = GemmExpected(args.C, args.A, args.B, args.TransposeA,
                            args.TransposeB, args.alpha)

\* C6: a successful gemv leaves C equal to alpha*op(A)*V + 1*C_original on the
\* row-major reading of A, in both backends and for both transpose settings.
C6_GemvAccumulatesRowMajorProduct ==
  (op = "gemv" /\ pc = "returned" /\ ret = EXIT_SUCCESS) =>
    /\ GemvFits(args.C, args.A, args.V, args.Transpose)
    /\ mem.C = GemvExpected(args.C, args.A, args.V, args.Transpose, args.alpha)

\* C7: in invert, reconstruction is invoked only after factorization was
\* invoked and reported success; a failed factorization returns a failure
\* without reconstruction, a failed reconstruction returns a failure, and
\* success is returned only when both steps succeeded in that order.
C7_InvertSequencesSteps ==
  op = "invert" =>
    /\ \A n \in 1..Len(calls) :
         calls[n].fn = "LAPACKE_dgetri" =>
           /\ n > 1
           /\ calls[n - 1].fn = "LAPACKE_dgetrf"
           /\ calls[n - 1].info = 0
    /\ \A n \in 1..Len(calls) :
         (calls[n].fn = "LAPACKE_dgetrf" /\ calls[n].info # 0) =>
           /\ ret = EXIT_FAILURE
           /\ \A m \in 1..Len(calls) : calls[m].fn # "LAPACKE_dgetri"
    /\ \A n \in 1..Len(calls) :
         (calls[n].fn = "LAPACKE_dgetri" /\ calls[n].info # 0) => ret = EXIT_FAILURE
    /\ (backend = "vendor" /\ ret = EXIT_SUCCESS) =>
         calls = <<LapackCall("LAPACKE_dgetrf", 0), LapackCall("LAPACKE_dgetri", 0)>>

\* C7 witness: the factorization of a singular matrix failed and the call
\* returned a failure after that one step
C7_Witness ==
  /\ op = "invert" /\ backend = "vendor" /\ pc = "returned"
  /\ Len(calls) = 1
  /\ calls[1].fn = "LAPACKE_dgetrf" /\ calls[1].info > 0
  /\ ret = EXIT_FAILURE

\* C8: gemm issues the backend multiply if and only if no operand is
\* degenerate and op(A), op(B) and C fit; a rejected input leaves the
\* contents of C, A and B unchanged.
C8_GemmMultipliesIffValid ==
  op = "gemm" =>
    /\ (calls # <<>>) <=> ~GemmRejected
    /\ GemmRejected => /\ mem.C = args.C.p
                       /\ mem.A = args.A.p
                       /\ mem.B = args.B.p
                       /\ clobbered = {}

\* C8 witness: non-degenerate operands that fit for A * B were passed with
\* both transpose flags set, and were rejected without a backend call
C8_Witness ==
  /\ op = "gemm"
  /\ args.TransposeA /\ args.TransposeB
  /\ ~ZeroSized(args.A) /\ ~ZeroSized(args.B) /\ ~ZeroSized(args.C)
  /\ GemmFits(args.C, args.A, args.B, FALSE, FALSE)
  /\ GemmRejected
  /\ calls = <<>>
  /\ mem.C = args.C.p

\* C9: invert on a matrix with rows != cols returns a failure at once: no
\* backend step is invoked, no scratch buffer is allocated and the matrix
\* is unchanged, in both builds.
C9_InvertRejectsNonSquare ==
  (op = "invert" /\ args.a.rows # args.a.cols) =>
    /\ pc = "returned"
    /\ ret = EXIT_FAILURE
    /\ calls = <<>>
    /\ ipiv = "none"
    /\ mem.a = "untouched"

\* C9 witness: a wide matrix was passed to invert and rejected
C9_Witness ==
  /\ op = "invert"
  /\ args.a.rows < args.a.cols /\ args.a.rows > 0
  /\ ret = EXIT_FAILURE
  /\ calls = <<>>

\* C10: every backend call gemv or gemm issues reads only indices inside
\* the buffers of A and of V (or B) and writes only indices inside C.
C10_BackendStaysInBuffers ==
  /\ op = "gemv" =>
       \A n \in 1..Len(calls) :
         /\ calls[n].readsA \subseteq 0..(args.A.rows * args.A.cols - 1)
         /\ calls[n].readsX \subseteq 0..(args.V.N - 1)
         /\ calls[n].writesC \subseteq 0..(args.C.N - 1)
  /\ op = "gemm" =>
       \A n \in 1..Len(calls) :
         /\ calls[n].readsA \subseteq 0..(args.A.rows * args.A.cols - 1)
         /\ calls[n].readsX \subseteq 0..(args.B.rows * args.B.cols - 1)
         /\ calls[n].writesC \subseteq 0..(args.C.rows * args.C.cols - 1)

====
